---- MODULE Spec2Model ----
(***************************************************************************)
(* Password manager: encryption at rest and the unlock flow.               *)
(*                                                                         *)
(* The persistent state is the salt file (salt.bin), the vault file        *)
(* (passwords.db) and its account table.  One process (session) runs at a  *)
(* time; it is started from one of the three front ends (console, Tk,      *)
(* Qt6), unlocks the vault, and then works on the account table through    *)
(* AccountService.                                                         *)
(*                                                                         *)
(* The services are also modelled on a vault with both tables and the      *)
(* timestamps of its records (SpecStore, and SpecKeys for sessions under   *)
(* different keys), and the password generator on its own                  *)
(* (SpecGenerator).                                                        *)
(*                                                                         *)
(* Cryptography is modelled symbolically: PBKDF2 and SHA-256 are           *)
(* injective, an AES-GCM ciphertext opens exactly under the key that       *)
(* produced it (the tag check fails under every other key and on every     *)
(* altered byte), and os.urandom returns a value it has not returned       *)
(* before.                                                                 *)
(***************************************************************************)
EXTENDS Integers, Sequences, FiniteSets, TLC

(* ------------------------------ bounds --------------------------------- *)
NumPasswords == 2
NumSalts == 2
NumChars == 1
NumDays == 1
MaxId == 2
MaxSaltCalls == 2
MaxUrandom == 3

Passwords == 1..NumPasswords
Salts == 1..NumSalts
Ids == 1..MaxId

\* load_salt's "file absent" marker
None == 0

\* f.read() of a salt file that holds no bytes
EmptyBytes == -1

\* os.urandom(16)
SaltLength == 16

\* len(salt)
len(salt) == IF salt = EmptyBytes THEN 0 ELSE SaltLength

\* non-empty strings a form can submit (one character is enough to tell
\* two values apart), and the empty string
String(chars) == [tag |-> "str", chars |-> chars]
EmptyString == String(<< >>)
Strings == { String(<<c>>) : c \in 1..NumChars }

\* datetime values: the forms parse "%d-%m-%Y", which yields midnight
datetime(day, sec) == [tag |-> "datetime", day |-> day, sec |-> sec]
DateTimes == { datetime(d, 0) : d \in 1..NumDays }

NULL == [tag |-> "null"]

(* ------------------------------ keys ----------------------------------- *)
NoKey == [kind |-> "none"]

\* the GUI front ends pass the text of the password dialog as the key
RawKey(password) == [kind |-> "raw", pw |-> password]

derive_key_ignores_password(password, salt) ==
    [kind |-> "derived", pw |-> 1, salt |-> salt]

\* PBKDF2-HMAC-SHA256(password, salt, 600000, dklen=32): deterministic and
\* (symbolically) injective in both arguments
derive_key(password, salt) ==
    [kind |-> "derived", pw |-> password, salt |-> salt]

\* str(bytes) is injective, so the key string is identified with the bytes
str(key) == key

Keys == { derive_key(p, s) : p \in Passwords, s \in Salts }
          \cup { RawKey(p) : p \in Passwords }

(* --------------------------- field cipher ------------------------------ *)
InvalidCiphertextError == [ok |-> FALSE, error |-> "InvalidCiphertextError"]

Ok(value) == [ok |-> TRUE, value |-> value]

\* AesGcmEngine.encrypt without its nonce: ciphertext and tag are
\* determined by key and plaintext.  form tells what has happened to the
\* stored bytes since: "intact", "altered" (some byte of nonce, tag or
\* ciphertext changed) or "short" (fewer than the 28 bytes of nonce and tag)
AesGcmEncrypt(value, key) ==
    [tag |-> "enc", key |-> key, pt |-> value, form |-> "intact"]

AesGcmDecrypt_no_tag_check(stored, key) == Ok(stored.pt)

AesGcmDecrypt_garbage_under_wrong_key(stored, key) ==
    IF stored.form # "intact" THEN InvalidCiphertextError
    ELSE IF stored.key = key THEN Ok(stored.pt)
    ELSE Ok(EmptyString)

AesGcmDecrypt_ignores_alteration(stored, key) ==
    IF stored.key = key THEN Ok(stored.pt) ELSE InvalidCiphertextError

\* AesGcmEngine.decrypt: the length check, then the tag check
\* (InvalidTag -> InvalidCiphertextError)
AesGcmDecrypt(stored, key) ==
    IF stored.form = "short" THEN InvalidCiphertextError
    ELSE IF stored.form = "altered" \/ stored.key # key
         THEN InvalidCiphertextError
    ELSE Ok(stored.pt)

\* what storage damage does to a stored field
Altered(stored) == [stored EXCEPT !.form = "altered"]

Truncated(stored) == [stored EXCEPT !.form = "short"]

os_urandom_constant(drawn) == 1

\* os.urandom(12), the nonce of one encrypt call: drawn is the number of
\* values the system generator has handed out so far
os_urandom(drawn) == drawn + 1

\* AesGcmEngine.encrypt: base64(nonce + tag + ciphertext)
encrypt(value, key, iv) == [iv |-> iv, body |-> AesGcmEncrypt(value, key)]

\* AesGcmEngine.decrypt of a stored text
decrypt(cell, key) == AesGcmDecrypt(cell.body, key)

\* datetime.isoformat(): "YYYY-MM-DDTHH:MM:SS" as the pair of its parts
isoformat(dt) == String(<<dt.day, dt.sec>>)

DatetimeHandler_drops_day(text) == datetime(0, text.chars[2])

\* DatetimeHandler.process_value for datetime: parse the ISO string
DatetimeHandler(text) == datetime(text.chars[1], text.chars[2])

\* StringEncryptedType(String, key, AesGcmEngine).process_bind_param
bind_String(value, key) ==
    IF value = NULL THEN NULL ELSE AesGcmEncrypt(value, key)

\* StringEncryptedType(DateTime, key, AesGcmEngine).process_bind_param
bind_DateTime(value, key) ==
    IF value = NULL THEN NULL ELSE AesGcmEncrypt(isoformat(value), key)

\* StringEncryptedType(String, ...).process_result_value
result_String(stored, key) ==
    IF stored = NULL THEN Ok(NULL) ELSE AesGcmDecrypt(stored, key)

\* StringEncryptedType(DateTime, ...).process_result_value
result_DateTime(stored, key) ==
    IF stored = NULL THEN Ok(NULL)
    ELSE LET d == AesGcmDecrypt(stored, key)
         IN IF d.ok THEN Ok(DatetimeHandler(d.value)) ELSE d

(* ------------------------------ state ---------------------------------- *)
VARIABLES
    salt_file,          \* salt.bin: None (absent) or the salt it holds
    db_file,            \* passwords.db exists (and has its tables)
    account,            \* rows of the account table
    table_missing,      \* passwords.db exists without its account table
    frontend,           \* front end of the running process, or "none"
    pc,                 \* position of the running process
    salt,               \* start_console_view's salt
    master_password,    \* the password typed at the last prompt (0: none)
    encryption_key,     \* the candidate key of the last prompt
    entities,           \* keys bound to the Account / CustomField classes
    result,             \* the last service call: what it returned and
                        \* the key its field encrypts/decrypts used
    fault,              \* uncaught exception that ended the process
    was_rejected,       \* history: this process rejected a password
    wrote,              \* history: this console process created a record
    written,            \* history: id -> what was written and by whom
    create_salt_calls,  \* history: calls of create_salt
    first_write_salt,   \* history: salt file when the first record was written
    urandom,            \* values os.urandom has handed out to encrypt calls
    nonces,             \* history: the nonce of every encrypt call, in order
    cells,              \* two encrypted columns of one row, as stored
    store,              \* the vault with both tables and the timestamps
    now,                \* the last reading of datetime.now
    unlocked,           \* key of the entity classes working on store
    outcome,            \* the last call on store: what it returned or raised
    generated           \* the last call of generate_password

persistent == <<salt_file, db_file, account, table_missing>>
session == <<frontend, pc, salt, master_password, encryption_key, entities,
             result, fault, was_rejected, wrote>>
history == <<written, create_salt_calls, first_write_salt>>
column_store == <<urandom, nonces, cells>>
service_store == <<store, now, unlocked, outcome>>
vars == <<salt_file, db_file, account, table_missing, frontend, pc, salt,
          master_password, encryption_key, entities, result, fault,
          was_rejected, wrote, written, create_salt_calls, first_write_salt,
          urandom, nonces, cells, store, now, unlocked, outcome, generated>>

\* the encrypted columns of CustomField
Columns == {"name", "value"}

NoEntities == [Account |-> NoKey, CustomField |-> NoKey]
NoResult == [op |-> "none"]

\* no passwords.db: no account table, no custom_field table
NoStore == [file |-> FALSE, account |-> {}, custom_field |-> {}]

Init ==
    /\ salt_file = None
    /\ db_file = FALSE
    /\ account = {}
    /\ table_missing = FALSE
    /\ frontend = "none"
    /\ pc = "idle"
    /\ salt = None
    /\ master_password = 0
    /\ encryption_key = NoKey
    /\ entities = NoEntities
    /\ result = NoResult
    /\ fault = "none"
    /\ was_rejected = FALSE
    /\ wrote = FALSE
    /\ written = << >>
    /\ create_salt_calls = 0
    /\ first_write_salt = None
    /\ urandom = 0
    /\ nonces = << >>
    /\ cells = [c \in Columns |-> NULL]
    /\ store = NoStore
    /\ now = 0
    /\ unlocked = NoKey
    /\ outcome = NoResult
    /\ generated = NULL

(* ------------------------- salt store, vault --------------------------- *)
load_salt_always_none(file) == None

load_salt_empty_when_absent(file) == IF file = None THEN EmptyBytes ELSE file

\* load_salt: the content of salt.bin, or None when the file is absent
load_salt(file) == file

create_salt_returns_other(random) ==
    [file |-> random, returned |-> (random % NumSalts) + 1]

\* create_salt: random is os.urandom(16); it is written to salt.bin and
\* returned
create_salt(random) == [file |-> random, returned |-> random]

\* check_if_db_exists: passwords.db can be opened
check_if_db_exists(file) == file

\* Query.first(): None on an empty table, otherwise one row (no ORDER BY)
first(table) == IF table = {} THEN {NULL} ELSE table

\* the account table does not exist: "no such table"
OperationalError == [tag |-> "error", error |-> "OperationalError"]

\* db.query(TempAccount).first() against the vault as it is
query_first(table, missing) ==
    IF missing THEN {OperationalError} ELSE first(table)

is_key_valid_swallows_failure(key, file, probe) == TRUE

is_key_valid_rejects_empty(key, file, probe) ==
    IF ~file THEN FALSE
    ELSE IF probe = NULL THEN FALSE
    ELSE result_String(probe.title, key).ok

\* is_key_valid: query the first account through a TempAccount whose title
\* column is bound to the candidate key.  No file, hence no account table:
\* OperationalError, caught by "except Exception".
is_key_valid(key, file, probe) ==
    IF ~file \/ probe = OperationalError THEN FALSE
    ELSE IF probe = NULL THEN TRUE
    ELSE result_String(probe.title, key).ok

\* the check the GUI front ends import from utils (verifyKey of the
\* specification: a boolean, never a fault)
check_secret_key(key, probe) ==
    IF probe = NULL THEN TRUE ELSE result_String(probe.title, key).ok

get_account_entity_binds_password(key) ==
    IF key.kind = "derived" THEN RawKey(key.pw) ELSE key

\* get_account_entity / get_custom_field_entity: the class keeps the key it
\* was generated with in its column types
get_account_entity(key) == key

get_custom_field_entity(key) == key

\* create_database: the two entity classes, generated with secret_key
create_database(secret_key) ==
    [Account |-> get_account_entity(secret_key),
     CustomField |-> get_custom_field_entity(secret_key)]

(* --------------------------- AccountService ---------------------------- *)
NotFoundAccountException == [ok |-> FALSE, error |-> "NotFoundAccountException"]

\* loading one row through the Account entity decrypts every column
LoadAccount(row, key) ==
    LET t == result_String(row.title, key)
        u == result_String(row.url, key)
        n == result_String(row.notes, key)
        e == result_DateTime(row.expiration_date, key)
    IN IF t.ok /\ u.ok /\ n.ok /\ e.ok
       THEN [ok |-> TRUE, id |-> row.id, title |-> t.value, url |-> u.value,
             notes |-> n.value, expiration_date |-> e.value]
       ELSE InvalidCiphertextError

\* AccountService.get_by_id
get_by_id(id, table, key) ==
    IF \E row \in table : row.id = id
    THEN LoadAccount(CHOOSE row \in table : row.id = id, key)
    ELSE NotFoundAccountException

\* AccountService.get_all succeeds when every row loads
get_all_ok(table, key) == \A row \in table : LoadAccount(row, key).ok

\* AccountService.get_all: Query.all() loads every row or raises
get_all(table, key) ==
    IF get_all_ok(table, key)
    THEN Ok({LoadAccount(row, key) : row \in table})
    ELSE InvalidCiphertextError

\* INTEGER PRIMARY KEY without AUTOINCREMENT: largest rowid plus one
NextId(table) ==
    IF table = {} THEN 1
    ELSE (CHOOSE i \in {r.id : r \in table} :
             \A j \in {r.id : r \in table} : j <= i) + 1

\* the row AccountService.create inserts for a CreateAccountDTO
NewRow(dto, table, key) ==
    [id |-> NextId(table),
     title |-> bind_String(dto.title, key),
     url |-> bind_String(dto.url, key),
     notes |-> bind_String(dto.notes, key),
     expiration_date |-> bind_DateTime(dto.expiration_date, key)]

\* what input() / Entry.get() / QLineEdit.text() deliver for an optional
\* field the user leaves blank
Blank == {EmptyString}

\* the DTOs the add forms build (optional texts left blank)
CreateAccountDTOs ==
    [title : Strings \cup {EmptyString}, url : Blank, notes : Blank,
     expiration_date : DateTimes \cup {NULL}]

\* the DTO of a cancelled or unused form
NoInput ==
    [title |-> EmptyString, url |-> EmptyString, notes |-> EmptyString,
     expiration_date |-> NULL]

(* ------------------------------ actions -------------------------------- *)
Returned(op, entity, key) == [op |-> op, entity |-> entity, key |-> key]

\* the process ends: everything it held in memory is gone
EndProcess ==
    /\ frontend' = "none"
    /\ pc' = "idle"
    /\ salt' = None
    /\ master_password' = 0
    /\ encryption_key' = NoKey
    /\ entities' = NoEntities
    /\ result' = NoResult
    /\ fault' = "none"
    /\ was_rejected' = FALSE
    /\ wrote' = FALSE

\* main(): --mode console
StartConsole ==
    /\ pc = "idle"
    /\ frontend' = "console"
    /\ pc' = "start"
    /\ UNCHANGED <<persistent, history, salt, master_password, encryption_key,
                   entities, result, fault, was_rejected, wrote>>
    /\ UNCHANGED <<column_store, service_store, generated>>

\* main(): --mode gui.  The Tk front end and its Qt6 port go through the
\* same steps here (they differ in what follows an InvalidPaddingError,
\* which the AES-GCM engine never raises), so "gui" stands for either
StartGui ==
    /\ pc = "idle"
    /\ frontend' = "gui"
    /\ pc' = "prompt"
    /\ UNCHANGED <<persistent, history, salt, master_password, encryption_key,
                   entities, result, fault, was_rejected, wrote>>
    /\ UNCHANGED <<column_store, service_store, generated>>

\* start_console_view: salt = load_salt(); if None: salt = create_salt()
\* (create_salt: os.urandom(16), written to salt.bin and returned)
LoadOrCreateSalt ==
    /\ pc = "start"
    /\ IF load_salt(salt_file) = None
       THEN \E s \in Salts :
              /\ salt_file' = create_salt(s).file
              /\ salt' = create_salt(s).returned
              /\ create_salt_calls' =
                   IF create_salt_calls < MaxSaltCalls
                   THEN create_salt_calls + 1 ELSE create_salt_calls
       ELSE /\ salt' = load_salt(salt_file)
            /\ UNCHANGED <<salt_file, create_salt_calls>>
    /\ pc' = "prompt"
    /\ UNCHANGED <<db_file, account, frontend, master_password, encryption_key,
                   entities, result, fault, was_rejected, wrote, written,
                   first_write_salt>>
    /\ UNCHANGED <<table_missing, column_store, service_store, generated>>

ask_for_master_password_rewrites_salt(password) ==
    /\ frontend = "console"
    /\ pc = "prompt"
    /\ master_password' = password
    /\ encryption_key' = str(derive_key(password, salt))
    /\ pc' = "key_derived"
    /\ \E s \in Salts : salt_file' = s
    /\ UNCHANGED <<db_file, account, table_missing, history, frontend, salt,
                   entities, result, fault, was_rejected, wrote>>
    /\ UNCHANGED <<column_store, service_store, generated>>

\* ask_for_master_password(salt): getpass, then str(derive_key(...))
ask_for_master_password(password) ==
    /\ frontend = "console"
    /\ pc = "prompt"
    /\ master_password' = password
    /\ encryption_key' = str(derive_key(password, salt))
    /\ pc' = "key_derived"
    /\ UNCHANGED <<persistent, history, frontend, salt, entities, result,
                   fault, was_rejected, wrote>>
    /\ UNCHANGED <<column_store, service_store, generated>>

\* start_console_view, body of the while loop after the prompt
CheckKey ==
    /\ frontend = "console"
    /\ pc = "key_derived"
    /\ \E probe \in query_first(account, table_missing) :
         pc' = IF check_if_db_exists(db_file)
               THEN IF is_key_valid(encryption_key, db_file, probe)
                    THEN "verified" ELSE "rejected"
               ELSE "verified"
    /\ UNCHANGED <<persistent, history, frontend, salt, master_password,
                   encryption_key, entities, result, fault, was_rejected, wrote>>
    /\ UNCHANGED <<column_store, service_store, generated>>

Reprompt_deletes_records ==
    /\ pc = "rejected"
    /\ pc' = "prompt"
    /\ was_rejected' = TRUE
    /\ account' = {}
    /\ UNCHANGED <<salt_file, db_file, table_missing, history, frontend, salt,
                   master_password, encryption_key, entities, result, fault,
                   wrote>>
    /\ UNCHANGED <<column_store, service_store, generated>>

\* "Invalid master password ..." and back to the top of the loop
Reprompt ==
    /\ pc = "rejected"
    /\ pc' = "prompt"
    /\ was_rejected' = TRUE
    /\ UNCHANGED <<persistent, history, frontend, salt, master_password,
                   encryption_key, entities, result, fault, wrote>>
    /\ UNCHANGED <<column_store, service_store, generated>>

\* start_console_view after the loop: create_database(encryption_key) and
\* the two services
OpenStore ==
    /\ frontend = "console"
    /\ pc = "verified"
    /\ entities' = create_database(encryption_key)
    /\ db_file' = TRUE
    /\ pc' = "opened"
    /\ UNCHANGED <<salt_file, account, history, frontend, salt,
                   master_password, encryption_key, result, fault,
                   was_rejected, wrote>>
    /\ table_missing' = FALSE
    /\ UNCHANGED <<column_store, service_store, generated>>

\* the password dialog of the GUI front ends: the text is the key
GuiEnterKey(password) ==
    /\ frontend = "gui"
    /\ pc = "prompt"
    /\ master_password' = password
    /\ encryption_key' = RawKey(password)
    /\ pc' = "key_entered"
    /\ UNCHANGED <<persistent, history, frontend, salt, entities, result,
                   fault, was_rejected, wrote>>
    /\ UNCHANGED <<column_store, service_store, generated>>

\* start_gui_view: create_database(encryption_key), the services, then
\* check_secret_key(account_service) as a statement (its value is dropped;
\* InvalidPaddingError, the only exception caught, is never raised by the
\* AES-GCM engine)
GuiOpenStore ==
    /\ frontend = "gui"
    /\ pc = "key_entered"
    /\ entities' = create_database(encryption_key)
    /\ db_file' = TRUE
    /\ \E probe \in first(account) :
         check_secret_key(encryption_key, probe) \in BOOLEAN
    /\ pc' = "opened"
    /\ UNCHANGED <<salt_file, account, history, frontend, salt,
                   master_password, encryption_key, result, fault,
                   was_rejected, wrote>>
    /\ table_missing' = FALSE
    /\ UNCHANGED <<column_store, service_store, generated>>

\* AccountService.create: insert the row, commit, refresh (the returned
\* entity is read back from the table)
create(dto) ==
    LET key == entities.Account
        row == NewRow(dto, account, key)
    IN /\ row.id <= MaxId
       /\ account' = account \cup {row}
       /\ result' = Returned("create", LoadAccount(row, key), key)
       /\ written' = (row.id :> [title |-> dto.title,
                                 expiration_date |-> dto.expiration_date,
                                 master_password |-> master_password,
                                 console |-> frontend = "console"])
                      @@ written
       /\ wrote' = (frontend = "console")
       /\ first_write_salt' =
            IF first_write_salt = None /\ frontend = "console"
            THEN salt_file ELSE first_write_salt

\* add_new_account (console) / the add dialogs' submit (GUI): an empty
\* title is refused before the service is called
add_account(dto) ==
    IF dto.title = EmptyString
    THEN /\ result' = Returned("add", NULL, NoKey)
         /\ UNCHANGED <<account, written, first_write_salt, wrote>>
    ELSE create(dto)

\* after the store is opened, every front end lists the accounts (get_all:
\* a row that does not decrypt raises InvalidCiphertextError, which nothing
\* catches) and, on an empty table, asks for a first account
EnterMainMenu(dto) ==
    /\ pc = "opened"
    /\ IF ~get_all_ok(account, entities.Account)
       THEN /\ pc' = "crashed"
            /\ fault' = "InvalidCiphertextError"
            /\ dto = NoInput
            /\ UNCHANGED <<account, result, written, first_write_salt, wrote>>
       ELSE /\ pc' = "menu"
            /\ fault' = fault
            /\ IF account = {}
               THEN add_account(dto)
               ELSE /\ dto = NoInput
                    /\ UNCHANGED <<account, result, written, first_write_salt, wrote>>
    /\ UNCHANGED <<salt_file, db_file, create_salt_calls, frontend, salt,
                   master_password, encryption_key, entities, was_rejected>>
    /\ UNCHANGED <<table_missing, column_store, service_store, generated>>

\* menu option 3 / "Add Account"
add_new_account(dto) ==
    /\ pc = "menu"
    /\ add_account(dto)
    /\ UNCHANGED <<salt_file, db_file, create_salt_calls, frontend, pc, salt,
                   master_password, encryption_key, entities, fault,
                   was_rejected>>
    /\ UNCHANGED <<table_missing, column_store, service_store, generated>>

\* menu option 2: AccountService.get_by_id; NotFoundAccountException is
\* caught, a decrypt failure is not
select_account(id) ==
    /\ pc = "menu"
    /\ LET key == entities.Account
           e == get_by_id(id, account, key)
       IN /\ result' = Returned("get_by_id", e, key)
          /\ IF e = InvalidCiphertextError
             THEN pc' = "crashed" /\ fault' = "InvalidCiphertextError"
             ELSE pc' = "menu" /\ fault' = fault
    /\ UNCHANGED <<persistent, history, frontend, salt, master_password,
                   encryption_key, entities, was_rejected, wrote>>
    /\ UNCHANGED <<column_store, service_store, generated>>

\* menu option 5 / "Delete": AccountService.delete (True when the row was
\* deleted, False when get_by_id raised NotFoundAccountException)
delete_account(id) ==
    /\ pc = "menu"
    /\ LET key == entities.Account
           e == get_by_id(id, account, key)
       IN IF e = NotFoundAccountException
          THEN /\ result' = Returned("delete", Ok(FALSE), key)
               /\ UNCHANGED <<account, written, pc, fault>>
          ELSE IF e = InvalidCiphertextError
          THEN /\ result' = Returned("delete", e, key)
               /\ pc' = "crashed" /\ fault' = "InvalidCiphertextError"
               /\ UNCHANGED <<account, written>>
          ELSE /\ account' = {row \in account : row.id # id}
               /\ written' = [i \in DOMAIN written \ {id} |-> written[i]]
               /\ result' = Returned("delete", Ok(TRUE), key)
               /\ UNCHANGED <<pc, fault>>
    /\ UNCHANGED <<salt_file, db_file, create_salt_calls, first_write_salt,
                   frontend, salt, master_password, encryption_key, entities,
                   was_rejected, wrote>>
    /\ UNCHANGED <<table_missing, column_store, service_store, generated>>

\* menu option 1 / refreshing the table: AccountService.get_all; a row
\* that does not decrypt raises InvalidCiphertextError, which nothing
\* catches
list_all_accounts ==
    /\ pc = "menu"
    /\ LET key == entities.Account
           all == get_all(account, key)
       IN /\ result' = Returned("get_all", all, key)
          /\ IF all = InvalidCiphertextError
             THEN pc' = "crashed" /\ fault' = "InvalidCiphertextError"
             ELSE pc' = "menu" /\ fault' = fault
    /\ UNCHANGED <<persistent, history, frontend, salt, master_password,
                   encryption_key, entities, was_rejected, wrote>>
    /\ UNCHANGED <<column_store, service_store, generated>>

\* the process ends: menu option 7 or closing the window, leaving the
\* password prompt (interrupt, cancelled dialog), or after a crash
Exit ==
    /\ pc \in {"prompt", "menu", "crashed"}
    /\ EndProcess
    /\ UNCHANGED <<persistent, history>>
    /\ UNCHANGED <<column_store, service_store, generated>>

Next ==
    \/ StartConsole
    \/ StartGui
    \/ LoadOrCreateSalt
    \/ \E p \in Passwords : ask_for_master_password(p)
    \/ CheckKey
    \/ Reprompt
    \/ OpenStore
    \/ \E p \in Passwords : GuiEnterKey(p)
    \/ GuiOpenStore
    \/ \E dto \in CreateAccountDTOs : EnterMainMenu(dto)
    \/ \E dto \in CreateAccountDTOs : add_new_account(dto)
    \/ \E id \in Ids : select_account(id)
    \/ \E id \in Ids : delete_account(id)
    \/ list_all_accounts
    \/ Exit

Spec == Init /\ [][Next]_vars

(* ----------------- storage damage between two processes ---------------- *)
\* the encrypted columns of an account row
AccountColumns == {"title", "url", "notes", "expiration_date"}

\* some stored field of the vault is no longer what encrypt produced
Damaged(table) ==
    \E row \in table : \E col \in AccountColumns :
        row[col] # NULL /\ row[col].form # "intact"

\* salt.bin is left without content (create_salt interrupted between
\* open("salt.bin", "wb") and f.write, or the file is cut)
TruncateSalt ==
    /\ pc = "idle"
    /\ salt_file \in Salts
    /\ salt_file' = EmptyBytes
    /\ UNCHANGED <<db_file, account, table_missing, session, history,
                   column_store, service_store, generated>>

\* one stored field of one account loses its tail: fewer than the 28
\* bytes of nonce and tag are left
TruncateField(id, col) ==
    /\ pc = "idle"
    /\ ~Damaged(account)
    /\ \E row \in account :
         /\ row.id = id
         /\ row[col] # NULL
         /\ account' = (account \ {row})
                          \cup {[row EXCEPT ![col] = Truncated(@)]}
    /\ UNCHANGED <<salt_file, db_file, table_missing, session, history,
                   column_store, service_store, generated>>

\* passwords.db loses its account table (the file is replaced by an empty
\* one): every query of the table raises OperationalError
DropAccountTable ==
    /\ pc = "idle"
    /\ db_file
    /\ ~table_missing
    /\ table_missing' = TRUE
    /\ account' = {}
    /\ written' = << >>
    /\ UNCHANGED <<salt_file, db_file, session, create_salt_calls,
                   first_write_salt, column_store, service_store, generated>>

FaultNext ==
    \/ Next
    \/ TruncateSalt
    \/ \E id \in Ids : \E col \in AccountColumns : TruncateField(id, col)
    \/ DropAccountTable

SpecFaults == Init /\ [][FaultNext]_vars

(* --------------------- the encrypted column type ----------------------- *)
\* keys of the engine: any two different keys
CipherKeys == { RawKey(p) : p \in Passwords }

program == <<persistent, session, history, service_store, generated>>

\* StringEncryptedType.process_bind_param of a non-null value:
\* AesGcmEngine.encrypt draws a nonce and the column stores the text
write_cell(col, value, key) ==
    /\ urandom < MaxUrandom
    /\ LET iv == os_urandom(urandom)
       IN /\ cells' = [cells EXCEPT ![col] = encrypt(value, key, iv)]
          /\ nonces' = Append(nonces, iv)
    /\ urandom' = urandom + 1
    /\ UNCHANGED program

\* a byte of the stored text (nonce, tag or ciphertext) is changed
AlterCell(col) ==
    /\ cells[col] # NULL
    /\ cells[col].body.form = "intact"
    /\ cells' = [cells EXCEPT ![col].body = Altered(@)]
    /\ UNCHANGED <<urandom, nonces, program>>

\* the stored text is cut below the 28 bytes of nonce and tag
TruncateCell(col) ==
    /\ cells[col] # NULL
    /\ cells[col].body.form = "intact"
    /\ cells' = [cells EXCEPT ![col].body = Truncated(@)]
    /\ UNCHANGED <<urandom, nonces, program>>

CipherNext ==
    \/ \E col \in Columns : \E value \in Strings \cup {EmptyString} :
          \E key \in CipherKeys : write_cell(col, value, key)
    \/ \E col \in Columns : AlterCell(col)
    \/ \E col \in Columns : TruncateCell(col)

SpecCipher == Init /\ [][CipherNext]_vars

(* ------------------------------ claims --------------------------------- *)
\* keys under which the encrypted columns of a row are stored
FieldKeys(row) ==
    {row.title.key} \cup
    (IF row.expiration_date = NULL THEN {} ELSE {row.expiration_date.key})

\* the entity classes exist: the record store is open
StoreOpen == entities # NoEntities

\* the candidate key fails the probe on the populated vault
ProbeFails ==
    /\ account # {}
    /\ \A row \in account : ~result_String(row.title, encryption_key).ok

\* C1 -- unlock gate of the console flow: whenever the record store is open
\* in a console process, the account table is empty or every stored title
\* decrypts under the key the store was opened with.
C1_UnlockGate ==
    (frontend = "console" /\ StoreOpen) =>
        \/ account = {}
        \/ \A row \in account : result_String(row.title, entities.Account).ok

\* a console process that first rejected a password and then opened the
\* store on a populated vault
C1_Witness ==
    /\ frontend = "console"
    /\ pc = "opened"
    /\ was_rejected
    /\ account # {}

\* C2 -- authenticator on a populated vault: when every record is encrypted
\* under k1, is_key_valid is true for k1 and false for every other key,
\* whichever row the probe reads.
C2_AuthenticatorPopulated ==
    \A k1 \in Keys :
        (/\ db_file
         /\ account # {}
         /\ \A row \in account : FieldKeys(row) = {k1}) =>
            \A probe \in first(account) :
                /\ is_key_valid(k1, db_file, probe)
                /\ \A k2 \in Keys \ {k1} : ~is_key_valid(k2, db_file, probe)

\* a wrong key has just been rejected on a vault with two records
C2_Witness ==
    /\ pc = "rejected"
    /\ Cardinality(account) >= 2

\* C3 as stated -- with zero account records (vault file absent, or present
\* with an empty table) is_key_valid returns true for any key and the
\* unlock flow proceeds to Verified.
C3_EmptyVaultOriginal ==
    account = {} =>
        /\ \A k \in Keys : \A probe \in first(account) :
               is_key_valid(k, db_file, probe)
        /\ pc # "rejected"

\* C3 as amended -- with the vault file present and the account table
\* empty, is_key_valid returns true for any key; with the file absent it
\* returns false but the flow does not call it; in both cases the console
\* check moves to Verified.
C3_EmptyVaultAmended ==
    /\ [](account = {} =>
            \A k \in Keys : \A probe \in first(account) :
                is_key_valid(k, db_file, probe) = db_file)
    /\ [][(pc = "key_derived" /\ account = {}) => pc' = "verified"]_vars

\* a key verified against a vault file whose account table is empty
C3_Witness ==
    /\ frontend = "console"
    /\ pc = "verified"
    /\ db_file
    /\ account = {}

\* C4 -- rejection is recoverable: whenever the candidate key fails the
\* probe, the unlock flow goes to Rejected (and from there back to the
\* prompt), in every front end.
C4_RejectionReturnsToPrompt ==
    [][(pc \in {"key_derived", "key_entered"} /\ ProbeFails)
          => pc' = "rejected"]_vars

\* C5 -- a wrong master password never ends a process in an uncaught
\* exception.
C5_NoUncaughtFault == fault = "none"

\* C6 -- the store is only ever opened with the key derive_key produced
\* from the typed password and the persisted salt.
C6_OpenedWithDerivedKey ==
    StoreOpen =>
        /\ salt_file # None
        /\ entities.Account = str(derive_key(master_password, salt_file))
        /\ entities.CustomField = str(derive_key(master_password, salt_file))

\* C7 -- salt stability: create_salt runs at most once, and once a record
\* has been written under a derived key the salt file, and the salt of
\* every console process, is the salt of that first write.
C7_SaltStability ==
    /\ create_salt_calls <= 1
    /\ first_write_salt # None =>
         /\ salt_file = first_write_salt
         /\ (frontend = "console" /\ pc # "start") => salt = first_write_salt

\* a later console process working on a record of an earlier one
C7_Witness ==
    /\ frontend = "console"
    /\ pc = "menu"
    /\ first_write_salt # None
    /\ ~wrote
    /\ \E i \in DOMAIN written : written[i].console

\* C8 -- end to end: for a record written by a console process under
\* master password p, a console process unlocked with p reads the
\* plaintext that was written, and a console process given another
\* password never gets past the key check.
C8_EndToEnd ==
    \A i \in DOMAIN written :
        (written[i].console /\ frontend = "console") =>
            /\ pc \in {"verified", "opened", "menu"} =>
                  master_password = written[i].master_password
            /\ pc = "menu" =>
                  LET e == get_by_id(i, account, entities.Account)
                  IN /\ e.ok
                     /\ e.title = written[i].title
                     /\ e.expiration_date = written[i].expiration_date

\* a console process that rejected one password, accepted another and read
\* a record of an earlier console process
C8_Witness ==
    /\ frontend = "console"
    /\ pc = "menu"
    /\ was_rejected
    /\ result.op = "get_by_id"
    /\ result.entity.ok
    /\ ~wrote
    /\ \E i \in DOMAIN written :
         /\ i = result.entity.id
         /\ written[i].console

\* the key of the process has been accepted
Accepted ==
    \/ pc \in {"verified", "menu"}
    \/ pc = "opened" /\ frontend = "console"

\* C9 -- Verified is terminal: from acceptance until the process ends there
\* is no further prompt, derivation or check, the accepted key does not
\* change, the entities are bound to it and to nothing else, and every
\* service call encrypts and decrypts with it.
C9_VerifiedTerminal ==
    [][(Accepted /\ pc' # "idle") =>
          /\ Accepted'
          /\ encryption_key' = encryption_key
          /\ StoreOpen => entities' = entities
          /\ StoreOpen' =>
               /\ entities'.Account = encryption_key
               /\ entities'.CustomField = encryption_key
          /\ result'.op # "none" => result'.key \in {encryption_key, NoKey}
      ]_vars

\* a record read in the main menu of a vault holding two records
C9_Witness ==
    /\ pc = "menu"
    /\ result.op = "get_by_id"
    /\ result.entity.ok
    /\ result.key = encryption_key
    /\ Cardinality(account) >= 2

C11_WrongKeyRejected ==
    /\ \A row \in account :
         \A k2 \in {encryption_key, entities.Account} \ FieldKeys(row) :
            /\ \A col \in AccountColumns :
                 row[col] # NULL =>
                     AesGcmDecrypt(row[col], k2) = InvalidCiphertextError
            /\ LoadAccount(row, k2) = InvalidCiphertextError
    /\ (StoreOpen /\ \E row \in account : entities.Account \notin FieldKeys(row))
          => result.op = "none"

\* a GUI process that read a populated vault with another key than the
\* one its records were written with
C11_Witness ==
    /\ frontend = "gui"
    /\ pc = "crashed"
    /\ \E row \in account : entities.Account \notin FieldKeys(row)

C14_AbsentStoredAsNull ==
    \A row \in account : \A col \in {"url", "notes", "expiration_date"} :
        row[col] # NULL => row[col].pt # EmptyString

\* C15 -- wrong password is told apart from other storage errors: the key
\* check rejects a password only when the decrypt of a stored account
\* title fails.
C15_RejectedOnlyOnDecryptFailure ==
    pc = "rejected" =>
        \E row \in account :
            AesGcmDecrypt(row.title, encryption_key) = InvalidCiphertextError

\* C16 -- load_salt and its caller: with salt.bin absent load_salt returns
\* None, nothing fails, and the caller calls create_salt once; with the
\* file present load_salt returns its content, create_salt is not called
\* and the file is left as it is.
C16_LoadSaltNotFound ==
    [][pc = "start" =>
          /\ pc' = "prompt"
          /\ fault' = "none"
          /\ IF salt_file = None
             THEN /\ load_salt(salt_file) = None
                  /\ create_salt_calls' = create_salt_calls + 1
                  /\ salt_file' \in Salts
                  /\ salt' = salt_file'
             ELSE /\ load_salt(salt_file) = salt_file
                  /\ create_salt_calls' = create_salt_calls
                  /\ salt_file' = salt_file
                  /\ salt' = salt_file
      ]_vars

\* a console process that loaded the salt an earlier console process
\* created
C16_Witness ==
    /\ frontend = "console"
    /\ pc = "prompt"
    /\ ~was_rejected
    /\ create_salt_calls = 1
    /\ \E i \in DOMAIN written : written[i].console

\* C17 -- salt round trip: the salt a console process works with, whether
\* create_salt returned it or load_salt did, is the content of salt.bin;
\* and once the file exists no step changes it, so every later
\* load-or-create returns the same salt.
C17_SaltRoundTrip ==
    /\ []((frontend = "console" /\ pc \notin {"idle", "start"}) =>
             /\ salt \in Salts
             /\ salt = load_salt(salt_file))
    /\ [][salt_file # None => salt_file' = salt_file]_vars

\* a console process, two passwords into its prompt loop, on a vault that
\* an earlier process wrote
C17_Witness ==
    /\ frontend = "console"
    /\ pc = "key_derived"
    /\ was_rejected
    /\ salt = salt_file
    /\ account # {}

\* C18 -- every salt passed to derive_key is 16 bytes long.
C18_SaltIsSixteenBytes ==
    encryption_key.kind = "derived" => len(encryption_key.salt) = SaltLength

\* C19 -- derive_key is deterministic and pure: the key of a console
\* process is derive_key of the password typed last and the salt, whatever
\* happened before; a record a console process wrote is stored under
\* derive_key of the password and salt of that process, in every later
\* state; and the step that derives the key changes neither the salt file
\* nor the vault.
C19_DeriveKeyPure ==
    /\ []((frontend = "console" /\ pc \notin {"idle", "start", "prompt"}) =>
             encryption_key = str(derive_key(master_password, salt)))
    /\ [](\A i \in DOMAIN written :
             written[i].console =>
                 \E row \in account :
                     /\ row.id = i
                     /\ FieldKeys(row) =
                          {str(derive_key(written[i].master_password,
                                          salt_file))})
    /\ [][(pc = "prompt" /\ pc' = "key_derived") =>
             UNCHANGED <<salt_file, db_file, account>>]_vars

\* a key derived again, after a rejection, for the password and the salt
\* an earlier process wrote a record with
C19_Witness ==
    /\ frontend = "console"
    /\ pc = "verified"
    /\ was_rejected
    /\ \E i \in DOMAIN written :
         /\ written[i].console
         /\ written[i].master_password = master_password

\* C20 -- a malformed stored field is fatal only for its own record: with
\* one stored field of one account cut short, another account well-formed,
\* and the key of the process the one the records were written with, the
\* process does not end in an uncaught exception.
C20_MalformedIsLocal ==
    (/\ Damaged(account)
     /\ \E row \in account : ~Damaged({row})
     /\ StoreOpen
     /\ \A row \in account : entities.Account \in FieldKeys(row))
        => pc # "crashed"

(* --------------- the services on the vault with both tables ------------ *)
NumTexts == 2
MaxFieldId == 1
MaxClock == 3

\* names and values of custom fields
Texts == { String(<<c>>) : c \in 1..NumTexts }

FieldIds == 1..MaxFieldId

NotFoundCustomFieldException ==
    [ok |-> FALSE, error |-> "NotFoundCustomFieldException"]

\* a service call: the vault and the clock it leaves, and what it returned
\* (NULL for None) or raised
Call(st, t, returned) == [store |-> st, now |-> t, returned |-> returned]

\* current_date = datetime.now(ZoneInfo("Europe/Warsaw")): t is the reading
\* before; readings of successive calls are strictly increasing (a commit
\* lies between any two of them)
datetime_now(t) == t + 1

\* "if dto.x and entity.x != dto.x": None and "" are falsy
Provided(value) == value # NULL /\ value # EmptyString

AccountService_create_no_timestamp(st, t, dto, key) ==
    LET row == NewRow(dto, st.account, key)
                  @@ [creation_date |-> 0, last_modification_date |-> datetime_now(t)]
    IN Call([st EXCEPT !.account = @ \cup {row}], datetime_now(t),
            LoadAccount(row, key))

\* AccountService.create: both timestamps are one reading of the clock
AccountService_create(st, t, dto, key) ==
    LET current_date == datetime_now(t)
        row == NewRow(dto, st.account, key)
                  @@ [creation_date |-> current_date,
                      last_modification_date |-> current_date]
    IN Call([st EXCEPT !.account = @ \cup {row}], current_date,
            LoadAccount(row, key))

\* the columns AccountService.update compares and assigns, and the bind of
\* each (user_name and password are texts like title)
UpdatedColumn(row, entity, dto, col, key) ==
    IF Provided(dto[col]) /\ entity[col] # dto[col]
    THEN IF col = "expiration_date" THEN bind_DateTime(dto[col], key)
         ELSE bind_String(dto[col], key)
    ELSE row[col]

AccountService_update_clears(st, t, id, dto, key) ==
    LET e == get_by_id(id, st.account, key)
    IN IF e = NotFoundAccountException THEN Call(st, t, NULL)
       ELSE IF ~e.ok THEN Call(st, t, e)
       ELSE LET row == CHOOSE r \in st.account : r.id = id
                current_date == datetime_now(t)
                new == [row EXCEPT
                          !.title = bind_String(dto.title, key),
                          !.url = bind_String(dto.url, key),
                          !.last_modification_date = current_date]
            IN Call([st EXCEPT !.account = (@ \ {row}) \cup {new}],
                    current_date, LoadAccount(new, key))

\* AccountService.update
AccountService_update(st, t, id, dto, key) ==
    LET e == get_by_id(id, st.account, key)
    IN IF e = NotFoundAccountException THEN Call(st, t, NULL)
       ELSE IF ~e.ok THEN Call(st, t, e)
       ELSE LET row == CHOOSE r \in st.account : r.id = id
                current_date == datetime_now(t)
                changed == \E col \in AccountColumns :
                               Provided(dto[col]) /\ e[col] # dto[col]
                new == [row EXCEPT
                          !.title = UpdatedColumn(row, e, dto, "title", key),
                          !.url = UpdatedColumn(row, e, dto, "url", key),
                          !.notes = UpdatedColumn(row, e, dto, "notes", key),
                          !.expiration_date =
                              UpdatedColumn(row, e, dto, "expiration_date", key),
                          !.last_modification_date =
                              IF changed THEN current_date ELSE @]
            IN Call([st EXCEPT !.account = (@ \ {row}) \cup {new}],
                    current_date, LoadAccount(new, key))

\* loading one row through the CustomField entity
LoadCustomField(row, key) ==
    LET n == result_String(row.name, key)
        v == result_String(row.value, key)
    IN IF n.ok /\ v.ok
       THEN [ok |-> TRUE, id |-> row.id, name |-> n.value, value |-> v.value,
             account_id |-> row.account_id]
       ELSE InvalidCiphertextError

\* Account.custom_fields: the rows of the custom_field table that point to
\* the account
custom_fields(st, id) == {cf \in st.custom_field : cf.account_id = id}

AccountService_delete_no_cascade(st, t, id, key) ==
    LET e == get_by_id(id, st.account, key)
    IN IF e = NotFoundAccountException THEN Call(st, t, Ok(FALSE))
       ELSE IF ~e.ok THEN Call(st, t, e)
       ELSE Call([st EXCEPT !.account = {r \in @ : r.id # id}], t, Ok(TRUE))

AccountService_delete_reports_true(st, t, id, key) ==
    LET e == get_by_id(id, st.account, key)
    IN IF e = NotFoundAccountException THEN Call(st, t, Ok(TRUE))
       ELSE IF ~e.ok THEN Call(st, t, e)
       ELSE Call([st EXCEPT !.account = {r \in @ : r.id # id},
                            !.custom_field = @ \ custom_fields(st, id)],
                 t, Ok(TRUE))

\* AccountService.delete: db.delete(account) loads account.custom_fields
\* (cascade="all, delete-orphan") and deletes them with the account
AccountService_delete(st, t, id, key) ==
    LET e == get_by_id(id, st.account, key)
    IN IF e = NotFoundAccountException THEN Call(st, t, Ok(FALSE))
       ELSE IF ~e.ok THEN Call(st, t, e)
       ELSE IF \E cf \in custom_fields(st, id) : ~LoadCustomField(cf, key).ok
       THEN Call(st, t, InvalidCiphertextError)
       ELSE Call([st EXCEPT !.account = {r \in @ : r.id # id},
                            !.custom_field = @ \ custom_fields(st, id)],
                 t, Ok(TRUE))

\* CustomFieldService.get_by_id
CustomFieldService_get_by_id(st, id, key) ==
    IF \E row \in st.custom_field : row.id = id
    THEN LoadCustomField(CHOOSE row \in st.custom_field : row.id = id, key)
    ELSE NotFoundCustomFieldException

CustomFieldService_create_unchecked(st, t, dto, key) ==
    LET current_date == datetime_now(t)
        row == [id |-> NextId(st.custom_field),
                name |-> bind_String(dto.name, key),
                value |-> bind_String(dto.value, key),
                account_id |-> dto.account_id,
                creation_date |-> current_date,
                last_modification_date |-> current_date]
    IN Call([st EXCEPT !.custom_field = @ \cup {row}], current_date,
            LoadCustomField(row, key))

\* CustomFieldService.create: None when the account does not exist
CustomFieldService_create(st, t, dto, key) ==
    LET a == get_by_id(dto.account_id, st.account, key)
    IN IF a = NotFoundAccountException THEN Call(st, t, NULL)
       ELSE IF ~a.ok THEN Call(st, t, a)
       ELSE LET current_date == datetime_now(t)
                row == [id |-> NextId(st.custom_field),
                        name |-> bind_String(dto.name, key),
                        value |-> bind_String(dto.value, key),
                        account_id |-> dto.account_id,
                        creation_date |-> current_date,
                        last_modification_date |-> current_date]
            IN Call([st EXCEPT !.custom_field = @ \cup {row}], current_date,
                    LoadCustomField(row, key))

\* CustomFieldService.update
CustomFieldService_update(st, t, id, dto, key) ==
    LET e == CustomFieldService_get_by_id(st, id, key)
    IN IF e = NotFoundCustomFieldException THEN Call(st, t, NULL)
       ELSE IF ~e.ok THEN Call(st, t, e)
       ELSE LET row == CHOOSE r \in st.custom_field : r.id = id
                current_date == datetime_now(t)
                name_changed == Provided(dto.name) /\ e.name # dto.name
                value_changed == Provided(dto.value) /\ e.value # dto.value
                new == [row EXCEPT
                          !.name = IF name_changed
                                   THEN bind_String(dto.name, key) ELSE @,
                          !.value = IF value_changed
                                    THEN bind_String(dto.value, key) ELSE @,
                          !.last_modification_date =
                              IF name_changed \/ value_changed
                              THEN current_date ELSE @]
            IN Call([st EXCEPT !.custom_field = (@ \ {row}) \cup {new}],
                    current_date, LoadCustomField(new, key))

\* CustomFieldService.delete
CustomFieldService_delete(st, t, id, key) ==
    LET e == CustomFieldService_get_by_id(st, id, key)
    IN IF e = NotFoundCustomFieldException THEN Call(st, t, Ok(FALSE))
       ELSE IF ~e.ok THEN Call(st, t, e)
       ELSE Call([st EXCEPT !.custom_field = {r \in @ : r.id # id}], t,
                 Ok(TRUE))

(* ------------------ a process working on the vault --------------------- *)
\* everything but the vault the services work on
outside_store == <<persistent, session, history, column_store, generated>>

\* the DTOs the services are called with
StoreCreateAccountDTOs ==
    {dto \in CreateAccountDTOs :
        dto.title # EmptyString /\ dto.expiration_date = NULL}

\* (the texts a process sends are a first and a second one, whatever the
\* number of texts the services are compared on)
UpdateAccountDTOs ==
    [title : {String(<<1>>), NULL},
     url : {String(<<1>>), EmptyString},
     notes : Blank,
     expiration_date : {NULL}]

CreateCustomFieldDTOs ==
    [name : {String(<<1>>)}, value : {String(<<1>>)}, account_id : Ids]

UpdateCustomFieldDTOs ==
    [name : {String(<<2>>), NULL}, value : {String(<<2>>), EmptyString}]

\* what the console reads for the new name and the new value (here the
\* value is left blank)
ConsoleUpdateCustomFieldDTOs ==
    [name : {String(<<2>>), EmptyString}, value : {EmptyString}]

\* the DTOs the services are compared on
AllCreateCustomFieldDTOs == [name : Texts, value : Texts, account_id : Ids]

\* what the last call returned or raised, and what it printed
Outcome(op, returned, printed) ==
    [op |-> op, returned |-> returned, printed |-> printed]

\* an exception (as opposed to a returned value)
Raised(returned) == returned # NULL /\ ~returned.ok

\* start_console_view from the prompt to the main menu: the candidate key
\* is checked against the probe; an accepted key gets the entity classes
\* (create_database creates the file and its tables) and the accounts are
\* listed.  A rejected key leaves the process at the prompt.
UnlockVault(key) ==
    /\ unlocked = NoKey
    /\ \E probe \in first(store.account) :
         IF check_if_db_exists(store.file)
               => is_key_valid(key, store.file, probe)
         THEN /\ store' = [store EXCEPT !.file = TRUE]
              /\ IF get_all_ok(store.account, create_database(key).Account)
                 THEN /\ unlocked' = create_database(key).Account
                      /\ outcome' = Outcome("is_key_valid", Ok(TRUE), "none")
                 ELSE /\ unlocked' = NoKey
                      /\ outcome' = Outcome("get_all", InvalidCiphertextError,
                                            "Traceback")
         ELSE /\ outcome' = Outcome("is_key_valid", Ok(FALSE),
                                    "Invalid master password")
              /\ UNCHANGED <<store, unlocked>>
    /\ UNCHANGED <<now, outside_store>>

\* the process is between two operations: at "Select option: " of the main
\* loop, or idle in the event loop of a GUI
AtMenu == unlocked # NoKey /\ outcome = NoResult

\* back to the top of the main loop after an operation: print_main_menu
print_main_menu ==
    /\ unlocked # NoKey
    /\ outcome # NoResult
    /\ outcome' = NoResult
    /\ UNCHANGED <<store, now, unlocked, outside_store>>

\* sys.exit(0), or the window is closed
LockVault ==
    /\ AtMenu
    /\ unlocked' = NoKey
    /\ outcome' = NoResult
    /\ UNCHANGED <<store, now, outside_store>>

\* what is kept of a returned value: of an entity its id
Summary(returned) ==
    IF returned = NULL \/ Raised(returned) THEN returned
    ELSE IF "id" \in DOMAIN returned THEN [ok |-> TRUE, id |-> returned.id]
    ELSE returned

\* the running process makes a service call; an exception that comes out
\* of it is caught by nothing and ends the process
ServiceCall(op, call) ==
    /\ call.now <= MaxClock
    /\ store' = call.store
    /\ now' = call.now
    /\ outcome' = Outcome(op, Summary(call.returned),
                          IF Raised(call.returned) THEN "Traceback" ELSE "none")
    /\ unlocked' = IF Raised(call.returned) THEN NoKey ELSE unlocked
    /\ UNCHANGED outside_store

AccountServiceCreate(dto) ==
    /\ AtMenu
    /\ NextId(store.account) <= MaxId
    /\ ServiceCall("AccountService.create",
                   AccountService_create(store, now, dto, unlocked))

AccountServiceUpdate(id, dto) ==
    /\ AtMenu
    /\ ServiceCall("AccountService.update",
                   AccountService_update(store, now, id, dto, unlocked))

AccountServiceDelete(id) ==
    /\ AtMenu
    /\ ServiceCall("AccountService.delete",
                   AccountService_delete(store, now, id, unlocked))

CustomFieldServiceCreate(dto) ==
    /\ AtMenu
    /\ NextId(store.custom_field) <= MaxFieldId
    /\ ServiceCall("CustomFieldService.create",
                   CustomFieldService_create(store, now, dto, unlocked))

CustomFieldServiceUpdate(id, dto) ==
    /\ AtMenu
    /\ ServiceCall("CustomFieldService.update",
                   CustomFieldService_update(store, now, id, dto, unlocked))

CustomFieldServiceDelete(id) ==
    /\ AtMenu
    /\ ServiceCall("CustomFieldService.delete",
                   CustomFieldService_delete(store, now, id, unlocked))

\* console, menu option 4 and then option 3: update_account looks the
\* account up (NotFoundAccountException is caught), update_custom_field
\* looks the custom field up ("except NotFoundAccountException" does not
\* catch the NotFoundCustomFieldException this raises), compares its
\* account_id with the account's id and only then asks for the new data
update_custom_field(account_id, cusotm_field_id, dto) ==
    /\ AtMenu
    /\ LET a == get_by_id(account_id, store.account, unlocked)
           custom_field ==
               CustomFieldService_get_by_id(store, cusotm_field_id, unlocked)
       IN IF a = NotFoundAccountException
          THEN /\ outcome' = Outcome("update_account", NULL, "Error")
               /\ UNCHANGED <<store, now, unlocked>>
               /\ UNCHANGED outside_store
          ELSE IF Raised(a)
          THEN ServiceCall("update_account", Call(store, now, a))
          ELSE IF Raised(custom_field)
          THEN ServiceCall("update_custom_field",
                           Call(store, now, custom_field))
          ELSE IF custom_field.account_id # a.id
          THEN /\ outcome' = Outcome("update_custom_field", NULL,
                                     "Wrong custom field Id")
               /\ UNCHANGED <<store, now, unlocked>>
               /\ UNCHANGED outside_store
          ELSE ServiceCall("update_custom_field",
                           CustomFieldService_update(store, now,
                               custom_field.id, dto, unlocked))

delete_custom_field_unchecked(account_id, cusotm_field_id) ==
    /\ AtMenu
    /\ LET a == get_by_id(account_id, store.account, unlocked)
           custom_field ==
               CustomFieldService_get_by_id(store, cusotm_field_id, unlocked)
       IN IF a = NotFoundAccountException
          THEN /\ outcome' = Outcome("update_account", NULL, "Error")
               /\ UNCHANGED <<store, now, unlocked>>
               /\ UNCHANGED outside_store
          ELSE IF Raised(a)
          THEN ServiceCall("update_account", Call(store, now, a))
          ELSE IF Raised(custom_field)
          THEN ServiceCall("delete_custom_field",
                           Call(store, now, custom_field))
          ELSE ServiceCall("delete_custom_field",
                           CustomFieldService_delete(store, now,
                               cusotm_field_id, unlocked))

\* console, menu option 4 and then option 4
delete_custom_field(account_id, cusotm_field_id) ==
    /\ AtMenu
    /\ LET a == get_by_id(account_id, store.account, unlocked)
           custom_field ==
               CustomFieldService_get_by_id(store, cusotm_field_id, unlocked)
       IN IF a = NotFoundAccountException
          THEN /\ outcome' = Outcome("update_account", NULL, "Error")
               /\ UNCHANGED <<store, now, unlocked>>
               /\ UNCHANGED outside_store
          ELSE IF Raised(a)
          THEN ServiceCall("update_account", Call(store, now, a))
          ELSE IF Raised(custom_field)
          THEN ServiceCall("delete_custom_field",
                           Call(store, now, custom_field))
          ELSE IF custom_field.account_id # a.id
          THEN /\ outcome' = Outcome("delete_custom_field", NULL,
                                     "Wrong custom field Id")
               /\ UNCHANGED <<store, now, unlocked>>
               /\ UNCHANGED outside_store
          ELSE ServiceCall("delete_custom_field",
                           CustomFieldService_delete(store, now,
                               cusotm_field_id, unlocked))

(* ----------------------- the GUI edit dialogs ------------------------- *)
\* CreateCustomFieldDTO(name=..., value=...): min_length=1
ValidationError == [ok |-> FALSE, error |-> "ValidationError"]

\* the smallest id of a non-empty set of ids
MinId(ids) == CHOOSE i \in ids : \A j \in ids : i <= j

\* the account part of an edit form that passes the "required" check
GuiUpdateAccountDTOs ==
    [title : {String(<<1>>)}, url : Blank, notes : Blank,
     expiration_date : {NULL}]

\* the rows a user can add to the custom fields of an edit form
NewRows ==
    {NULL} \cup [name : {String(<<1>>)}, value : {EmptyString, String(<<1>>)}]

\* what a user does in the edit dialog of an account before Save: the
\* account part, the name each row of a stored custom field shows unless
\* the row was removed with its button, and a row added in the form
EditForms(st, id) ==
    LET existing_ids == {cf.id : cf \in custom_fields(st, id)}
    IN { [dto |-> dto, names |-> names,
          removed |-> existing_ids \ DOMAIN names, new |-> new] :
            dto \in GuiUpdateAccountDTOs,
            names \in UNION { [K -> {String(<<1>>), EmptyString}] :
                                 K \in SUBSET existing_ids },
            new \in NewRows }

\* edit_account_gui.submit, the loop over the rows that came from stored
\* custom fields ("if name: if cf_id: custom_field_service.update(...)");
\* the value entry is sent as it was filled in, so it never differs
RECURSIVE UpdateRows(_, _, _, _, _)
UpdateRows(st, t, ids, names, key) ==
    IF ids = {} THEN Call(st, t, NULL)
    ELSE LET cf_id == MinId(ids)
             e == CustomFieldService_get_by_id(st, cf_id, key)
             call == IF names[cf_id] = EmptyString THEN Call(st, t, NULL)
                     ELSE CustomFieldService_update(
                              st, t, cf_id,
                              [name |-> names[cf_id],
                               value |-> IF e.ok THEN e.value ELSE EmptyString],
                              key)
         IN IF Raised(call.returned) THEN call
            ELSE UpdateRows(call.store, call.now, ids \ {cf_id}, names, key)

\* custom_field_service.delete for each of the ids, smallest first: the
\* Remove buttons of the rows of stored custom fields, and in
\* edit_account_gui.submit the loop over to_delete
RECURSIVE DeleteRows(_, _, _, _)
DeleteRows(st, t, ids, key) ==
    IF ids = {} THEN Call(st, t, NULL)
    ELSE LET call == CustomFieldService_delete(st, t, MinId(ids), key)
         IN IF Raised(call.returned) THEN call
            ELSE DeleteRows(call.store, call.now, ids \ {MinId(ids)}, key)

\* edit_account_gui.submit (Tk): update the account, then update the custom
\* fields in the form, create the added one, delete the ones that
\* account_data (loaded when the dialog was opened) has and the form has not
edit_account_gui_submit(st, t, id, form, key) ==
    LET form_ids == DOMAIN form.names
        existing_ids == form_ids \cup form.removed
        account_call == AccountService_update(st, t, id, form.dto, key)
        updates == UpdateRows(account_call.store, account_call.now, form_ids,
                              form.names, key)
        creation ==
            IF form.new = NULL THEN Call(updates.store, updates.now, NULL)
            ELSE IF form.new.value = EmptyString
            THEN Call(updates.store, updates.now, ValidationError)
            ELSE CustomFieldService_create(
                     updates.store, updates.now,
                     [name |-> form.new.name, value |-> form.new.value,
                      account_id |-> id], key)
    IN IF Raised(account_call.returned) THEN account_call
       ELSE IF Raised(updates.returned) THEN updates
       ELSE IF Raised(creation.returned) THEN creation
       ELSE DeleteRows(creation.store, creation.now,
                       existing_ids \ form_ids, key)

\* the edit dialog of Tk: a Remove button on the row of a stored custom
\* field deletes it at once (remove_row), Save runs submit
edit_account_gui(st, t, id, form, key) ==
    LET removal == DeleteRows(st, t, form.removed, key)
    IN IF Raised(removal.returned) THEN removal
       ELSE edit_account_gui_submit(removal.store, removal.now, id, form, key)

\* AccountDialog.accept in edit mode (Qt6): update the account ("Custom
\* fields update logic omitted for brevity")
AccountDialog_accept(st, t, id, form, key) ==
    AccountService_update(st, t, id, form.dto, key)

\* a dialog is saved: an exception in the handler is reported by the
\* toolkit and the process goes on, unless the vault cannot be read
SaveDialog(op, call) ==
    /\ call.now <= MaxClock
    /\ store' = call.store
    /\ now' = call.now
    /\ outcome' = Outcome(op, Summary(call.returned),
                          IF Raised(call.returned) THEN "Traceback" ELSE "none")
    /\ unlocked' = IF call.returned = InvalidCiphertextError
                   THEN NoKey ELSE unlocked
    /\ UNCHANGED outside_store

\* Tk: the edit dialog of a listed account, up to "Save"
TkSaveEdit(id) ==
    /\ AtMenu
    /\ \E row \in store.account : row.id = id
    /\ \E form \in EditForms(store, id) :
         /\ NextId(store.custom_field) <= MaxFieldId \/ form.new = NULL
         /\ SaveDialog("edit_account_gui.submit",
                       edit_account_gui(store, now, id, form, unlocked))

\* Qt6: the AccountDialog of a listed account, up to "OK"; its Remove
\* buttons only take the row out of the form, and accept reads none of the
\* rows in edit mode
QtSaveEdit(id) ==
    /\ AtMenu
    /\ \E row \in store.account : row.id = id
    /\ \E dto \in GuiUpdateAccountDTOs :
         SaveDialog("AccountDialog.accept",
                    AccountDialog_accept(store, now, id, [dto |-> dto],
                                         unlocked))

\* keys the vault is unlocked with while the services are exercised
StoreKeys == {RawKey(1)}

StoreNext ==
    \/ \E key \in StoreKeys : UnlockVault(key)
    \/ print_main_menu
    \/ LockVault
    \/ \E dto \in StoreCreateAccountDTOs : AccountServiceCreate(dto)
    \/ \E id \in Ids : \E dto \in UpdateAccountDTOs : AccountServiceUpdate(id, dto)
    \/ \E id \in Ids : AccountServiceDelete(id)
    \/ \E dto \in CreateCustomFieldDTOs : CustomFieldServiceCreate(dto)
    \/ \E id \in FieldIds : \E dto \in UpdateCustomFieldDTOs :
          CustomFieldServiceUpdate(id, dto)
    \/ \E id \in FieldIds : CustomFieldServiceDelete(id)
    \/ \E a \in Ids : \E id \in FieldIds :
          \E dto \in ConsoleUpdateCustomFieldDTOs :
             update_custom_field(a, id, dto)
    \/ \E a \in Ids : \E id \in FieldIds : delete_custom_field(a, id)
    \/ \E id \in Ids : TkSaveEdit(id)
    \/ \E id \in Ids : QtSaveEdit(id)

SpecStore == Init /\ [][StoreNext]_vars

\* C21 -- custom fields are always linked to a valid account: every stored
\* custom field points to a stored account; AccountService.delete of a
\* stored account leaves none of its custom fields and touches no custom
\* field of another account; CustomFieldService.create for an id no
\* account has returns None and stores nothing.
C21_FieldsLinked ==
    /\ \A cf \in store.custom_field :
          \E a \in store.account : a.id = cf.account_id
    /\ unlocked # NoKey =>
         \A id \in Ids :
            LET call == AccountService_delete(store, now, id, unlocked)
            IN (\E a \in store.account : a.id = id) =>
                  /\ call.returned = Ok(TRUE)
                  /\ custom_fields(call.store, id) = {}
                  /\ call.store.custom_field =
                        store.custom_field \ custom_fields(store, id)
    /\ unlocked # NoKey =>
         \A dto \in AllCreateCustomFieldDTOs :
            (\A a \in store.account : a.id # dto.account_id) =>
                CustomFieldService_create(store, now, dto, unlocked)
                    = Call(store, now, NULL)

\* two stored accounts, one of them with a custom field: the vault on
\* which the delete of either account is compared above
C21_Witness ==
    \E a, b \in store.account :
        /\ custom_fields(store, a.id) # {}
        /\ custom_fields(store, b.id) = {}
        /\ unlocked # NoKey

\* the DTOs the update services are compared on: every field a text, None
\* or the empty string
FrameAccountDTOs ==
    [title : Strings \cup {NULL, EmptyString},
     url : Strings \cup {NULL, EmptyString},
     notes : {NULL, EmptyString},
     expiration_date : {NULL}]

FrameCustomFieldDTOs ==
    [name : Texts \cup {NULL, EmptyString},
     value : Texts \cup {NULL, EmptyString}]

\* C22 -- not-found outcomes of AccountService leave the store unchanged:
\* delete(id) returns True and removes exactly the account with that id when
\* it exists, and returns False changing nothing when it does not;
\* update(id, dto) returns None changing nothing when the id does not exist;
\* get_by_id raises NotFoundAccountException exactly when no account has
\* the id, and so after a successful delete of it.
C22_NotFoundUnchanged ==
    unlocked # NoKey =>
      \A id \in Ids :
         LET exists == \E a \in store.account : a.id = id
             deleted == AccountService_delete(store, now, id, unlocked)
         IN /\ (get_by_id(id, store.account, unlocked)
                   = NotFoundAccountException) <=> ~exists
            /\ exists =>
                  /\ deleted.returned = Ok(TRUE)
                  /\ deleted.store.account
                        = {a \in store.account : a.id # id}
                  /\ get_by_id(id, deleted.store.account, unlocked)
                        = NotFoundAccountException
            /\ ~exists =>
                  /\ deleted = Call(store, now, Ok(FALSE))
                  /\ \A dto \in FrameAccountDTOs :
                        AccountService_update(store, now, id, dto, unlocked)
                            = Call(store, now, NULL)

\* AccountService.delete has returned False for an id no account has, on a
\* vault that holds another account
C22_Witness ==
    /\ outcome.op = "AccountService.delete"
    /\ outcome.returned = Ok(FALSE)
    /\ store.account # {}

(* ------------------------ the password generator ----------------------- *)
MaxLength == 3

\* the character classes of the string module, one character of each
ascii_lowercase == {"a"}

digits == {"0"}

ascii_uppercase == {"A"}

punctuation == {"!"}

ValueError == [ok |-> FALSE, error |-> "ValueError"]

\* the pool generate_password draws from: it starts as the lowercase
\* letters, and a class is added for each flag that is set
character_pool(use_digits, use_uppercase, use_special) ==
    ascii_lowercase
        \cup (IF use_digits THEN digits ELSE {})
        \cup (IF use_uppercase THEN ascii_uppercase ELSE {})
        \cup (IF use_special THEN punctuation ELSE {})

\* generate_password: the results a call can have, one for each outcome of
\* the secrets.choice draws
generate_password(length, use_digits, use_uppercase, use_special) ==
    LET pool == character_pool(use_digits, use_uppercase, use_special)
    IN IF length < 1 THEN {ValueError}
       ELSE IF pool = {} THEN {ValueError}
       ELSE {Ok(password) : password \in [1..length -> pool]}

\* a front end calls generate_password with what was typed in its form
GeneratePassword(length, use_digits, use_uppercase, use_special) ==
    /\ \E password \in generate_password(length, use_digits, use_uppercase,
                                         use_special) :
          generated' = [length |-> length, use_digits |-> use_digits,
                        use_uppercase |-> use_uppercase,
                        use_special |-> use_special, result |-> password]
    /\ UNCHANGED <<persistent, session, history, column_store, service_store>>

GeneratorNext ==
    \E length \in -1..MaxLength :
      \E use_digits, use_uppercase, use_special \in BOOLEAN :
        GeneratePassword(length, use_digits, use_uppercase, use_special)

SpecGenerator == Init /\ [][GeneratorNext]_vars

\* C23 -- generate_password(length, use_digits, use_uppercase, use_special)
\* returns a string of exactly length characters, each drawn from the
\* classes that are enabled, and raises ValueError when length < 1 or when
\* no character type is selected.
C23_GeneratePassword ==
    generated # NULL =>
       LET selected == generated.use_digits \/ generated.use_uppercase
                          \/ generated.use_special
           enabled == character_pool(generated.use_digits,
                                     generated.use_uppercase,
                                     generated.use_special)
       IN IF generated.length < 1 \/ ~selected
          THEN generated.result = ValueError
          ELSE /\ generated.result.ok
               /\ Len(generated.result.value) = generated.length
               /\ \A i \in 1..generated.length :
                     generated.result.value[i] \in enabled

\* C24 -- the Qt6 GUI preserves the logic of the Tk GUI for editing an
\* account: from the same vault and the same form contents, saving the Qt6
\* AccountDialog in edit mode leaves the vault as saving the Tk edit dialog
\* does, including the creation of new custom fields, the update of
\* changed ones and the deletion of removed ones.
C24_QtAsTk ==
    unlocked # NoKey =>
      \A row \in store.account :
         \A form \in EditForms(store, row.id) :
            AccountDialog_accept(store, now, row.id, form, unlocked).store
               = edit_account_gui(store, now, row.id, form, unlocked).store

\* C25 -- a rejected unlock attempt has no side effect on persistent state:
\* every step of the prompt loop of start_console_view up to the accepted
\* check (the prompt with derive_key, the check with is_key_valid that
\* rejects, the message and the return to the prompt) leaves salt.bin,
\* passwords.db and every stored record as they were, so they are after
\* any number of rejected attempts what they were before the first.
C25_RejectedNoEffect ==
    [][(/\ frontend = "console"
        /\ pc \in {"prompt", "key_derived", "rejected"}
        /\ pc' \in {"prompt", "key_derived", "rejected"})
          => UNCHANGED <<salt_file, db_file, account, table_missing>>]_vars

\* a console process rejects a password a second time, on a vault with
\* records and a salt file
C25_Witness ==
    /\ frontend = "console"
    /\ pc = "rejected"
    /\ was_rejected
    /\ account # {}
    /\ salt_file # None

\* C26 -- AccountService.update and CustomFieldService.update change only
\* the fields whose DTO value is non-empty and differs from the stored
\* value: a field given as None or as the empty string is left as stored
\* (update never clears a value), id and creation_date never change, every
\* other record stays, and last_modification_date changes if and only if
\* at least one field was changed.
C26_UpdateFrame ==
    unlocked # NoKey =>
      /\ \A row \in store.account : \A dto \in FrameAccountDTOs :
            LET call == AccountService_update(store, now, row.id, dto,
                                              unlocked)
                old == LoadAccount(row, unlocked)
                new == CHOOSE r \in call.store.account : r.id = row.id
                differs(col) == /\ dto[col] # NULL
                                /\ dto[col] # EmptyString
                                /\ dto[col] # old[col]
            IN /\ call.store.account \ {new} = store.account \ {row}
               /\ call.store.custom_field = store.custom_field
               /\ \A col \in AccountColumns :
                     IF differs(col)
                     THEN LoadAccount(new, unlocked)[col] = dto[col]
                     ELSE new[col] = row[col]
               /\ new.creation_date = row.creation_date
               /\ new.last_modification_date # row.last_modification_date
                     <=> \E col \in AccountColumns : differs(col)
      /\ \A row \in store.custom_field : \A dto \in FrameCustomFieldDTOs :
            LET call == CustomFieldService_update(store, now, row.id, dto,
                                                  unlocked)
                old == LoadCustomField(row, unlocked)
                new == CHOOSE r \in call.store.custom_field : r.id = row.id
                differs(col) == /\ dto[col] # NULL
                                /\ dto[col] # EmptyString
                                /\ dto[col] # old[col]
            IN /\ call.store.custom_field \ {new}
                     = store.custom_field \ {row}
               /\ call.store.account = store.account
               /\ \A col \in Columns :
                     IF differs(col)
                     THEN LoadCustomField(new, unlocked)[col] = dto[col]
                     ELSE new[col] = row[col]
               /\ new.account_id = row.account_id
               /\ new.creation_date = row.creation_date
               /\ new.last_modification_date # row.last_modification_date
                     <=> \E col \in Columns : differs(col)

\* AccountService.update has changed one account at the reading now, next
\* to an account that no update has changed
C26_Witness ==
    /\ outcome.op = "AccountService.update"
    /\ \E a, b \in store.account :
          /\ a.last_modification_date = now
          /\ a.creation_date < now
          /\ b.last_modification_date = b.creation_date

\* C27 -- timestamps: every account and every custom field is created with
\* creation_date equal to last_modification_date, and in every vault the
\* create and update operations lead to, each stored record has
\* last_modification_date >= creation_date.
C27_Timestamps ==
    /\ \A r \in store.account \cup store.custom_field :
          r.last_modification_date >= r.creation_date
    /\ unlocked # NoKey =>
         /\ \A dto \in StoreCreateAccountDTOs :
               LET call == AccountService_create(store, now, dto, unlocked)
                   created == call.store.account \ store.account
               IN /\ Cardinality(created) = 1
                  /\ \A r \in created :
                        r.creation_date = r.last_modification_date
         /\ \A dto \in AllCreateCustomFieldDTOs :
               LET call == CustomFieldService_create(store, now, dto,
                                                     unlocked)
                   created == call.store.custom_field \ store.custom_field
               IN (\E a \in store.account : a.id = dto.account_id) =>
                     /\ Cardinality(created) = 1
                     /\ \A r \in created :
                           r.creation_date = r.last_modification_date

\* an account that an update has changed since it was created, with a
\* custom field as it was created
C27_Witness ==
    \E a \in store.account : \E cf \in store.custom_field :
        /\ a.last_modification_date > a.creation_date
        /\ cf.last_modification_date = cf.creation_date
        /\ cf.account_id = a.id

(* ------------- sessions under different keys on one vault -------------- *)
\* one DTO for each service call of a session
SessionCreateAccountDTO ==
    [title |-> String(<<1>>), url |-> EmptyString, notes |-> EmptyString,
     expiration_date |-> NULL]

SessionUpdateAccountDTO ==
    [title |-> NULL, url |-> String(<<1>>), notes |-> EmptyString,
     expiration_date |-> NULL]

SessionCreateCustomFieldDTOs ==
    [name : {String(<<1>>)}, value : {String(<<1>>)}, account_id : Ids]

SessionUpdateCustomFieldDTO == [name |-> NULL, value |-> String(<<2>>)]

\* sequential sessions: each unlocks with some key through the probe, then
\* creates, updates and deletes records
KeysNext ==
    \/ \E key \in CipherKeys : UnlockVault(key)
    \/ print_main_menu
    \/ LockVault
    \/ AccountServiceCreate(SessionCreateAccountDTO)
    \/ \E id \in Ids : AccountServiceUpdate(id, SessionUpdateAccountDTO)
    \/ \E id \in Ids : AccountServiceDelete(id)
    \/ \E dto \in SessionCreateCustomFieldDTOs : CustomFieldServiceCreate(dto)
    \/ \E id \in FieldIds :
          CustomFieldServiceUpdate(id, SessionUpdateCustomFieldDTO)
    \/ \E id \in FieldIds : CustomFieldServiceDelete(id)

SpecKeys == Init /\ [][KeysNext]_vars

\* the keys of the encrypted fields stored in the vault
StoredKeys(st) ==
    {f.key : f \in {row[col] : row \in st.account, col \in AccountColumns}
                      \ {NULL}}
       \cup {cf[col].key : cf \in st.custom_field, col \in Columns}

\* C28 -- single-key vault: after any sequence of sequential sessions (each
\* unlocking through the probe of one stored account title, then creating,
\* updating and deleting records) every encrypted field stored in the
\* vault, of accounts and of custom fields, is encrypted under one and the
\* same key; a key other than the one that wrote the existing records is
\* accepted only when the vault holds no record at all.
C28_SingleKey ==
    /\ Cardinality(StoredKeys(store)) <= 1
    /\ store.account = {} => store.custom_field = {}
    /\ \A key \in CipherKeys : \A probe \in first(store.account) :
          (/\ check_if_db_exists(store.file)
           /\ is_key_valid(key, store.file, probe)
           /\ key \notin StoredKeys(store))
             => store.account \cup store.custom_field = {}
    /\ unlocked # NoKey => StoredKeys(store) \subseteq {unlocked}

\* a key has just been rejected on a vault that holds an account and a
\* custom field written under another key
C28_Witness ==
    /\ outcome.op = "is_key_valid"
    /\ outcome.printed = "Invalid master password"
    /\ store.account # {}
    /\ store.custom_field # {}

\* C29 -- in the console flows update_custom_field and delete_custom_field
\* a custom field id that does not exist is a handled error: the exception
\* CustomFieldService.get_by_id raises is caught, the function returns
\* None, the vault is unchanged and the session goes on to the main menu.
C29_MissingFieldHandled ==
    outcome.op \in {"update_custom_field", "delete_custom_field"} =>
       /\ ~Raised(outcome.returned)
       /\ unlocked # NoKey

\* C30 -- ownership check in the console edit menu: through the edit menu
\* of account A (update_account, then update_custom_field or
\* delete_custom_field) a custom field whose account_id is not A's id is
\* never updated or deleted; the operation reports a wrong id and leaves
\* every custom field unchanged.
C30_Ownership ==
    [][\A a \in Ids : \A id \in FieldIds :
          (/\ \E row \in store.account : row.id = a
           /\ \E cf \in store.custom_field : cf.id = id /\ cf.account_id # a
           /\ \/ \E dto \in ConsoleUpdateCustomFieldDTOs :
                    update_custom_field(a, id, dto)
              \/ delete_custom_field(a, id))
             => /\ store' = store
                /\ outcome'.printed = "Wrong custom field Id"
                /\ unlocked' = unlocked]_vars

\* the edit menu of one account was given the id of a custom field of
\* another account and has reported it
C30_Witness ==
    /\ outcome.op \in {"update_custom_field", "delete_custom_field"}
    /\ outcome.printed = "Wrong custom field Id"
    /\ store.custom_field # {}

====
